---- MODULE Spec2Model ----
(***************************************************************************)
(* The exponential-map transforms of relie/se3_exp_transform.py:           *)
(* SE3ExpTransform, SE3ExpCompactTransform and SE3ExpBijectiveTransform.   *)
(*                                                                         *)
(* Numbers are exact integers.  Angles are measured in quarter turns, so   *)
(* math.pi is 2 and a full period is 4, and rotation vectors lie on the    *)
(* coordinate axes: on this grid every norm, sine, cosine and rotation     *)
(* matrix entry is an integer.  An algebra element is a 6-tuple, three     *)
(* rotational components followed by three translational ones; the         *)
(* translation of a twist lies on its screw axis, where the exponential    *)
(* map carries it over unchanged.                                          *)
(***************************************************************************)
EXTENDS Integers, Sequences, FiniteSets, TLC

\* math.pi in quarter turns.
Pi == 2
TwoPi == 2 * Pi

\* Default of SE3ExpTransform.__init__'s k_max.
DefaultKMax == 5

\* Largest |angle| of an algebra element handed to a transform.
MaxAng == 7
\* Largest |translation| along the screw axis.
MaxTrans == 1
\* Largest non-default k_max a transform is constructed with.
MaxK == 2
\* Largest support_radius a transform is constructed with.
MaxRadius == 7

VARIABLES k_max, support_radius, pc, call, result

vars == <<k_max, support_radius, pc, call, result>>

----------------------------------------------------------------------------
(* Vectors and matrices *)

Zero3 == <<0, 0, 0>>
E(i) == [j \in 1..3 |-> IF j = i THEN 1 ELSE 0]
Scale(a, u) == [j \in 1..3 |-> a * u[j]]
Dot(u, v) == u[1] * v[1] + u[2] * v[2] + u[3] * v[3]

Id3 == [i \in 1..3 |-> [j \in 1..3 |-> IF i = j THEN 1 ELSE 0]]
Hat(u) == << <<0, -u[3], u[2]>>, <<u[3], 0, -u[1]>>, <<-u[2], u[1], 0>> >>
MatMul(A, B) == [i \in 1..3 |-> [j \in 1..3 |->
                    A[i][1] * B[1][j] + A[i][2] * B[2][j] + A[i][3] * B[3][j]]]
Transpose(A) == [i \in 1..3 |-> [j \in 1..3 |-> A[j][i]]]
Trace(A) == A[1][1] + A[2][2] + A[3][3]
Det(A) == A[1][1] * (A[2][2] * A[3][3] - A[2][3] * A[3][2])
          - A[1][2] * (A[2][1] * A[3][3] - A[2][3] * A[3][1])
          + A[1][3] * (A[2][1] * A[3][2] - A[2][2] * A[3][1])

\* sin and cos of an angle given in quarter turns.
Sin(th) == CASE th % TwoPi = 0 -> 0
             [] th % TwoPi = 1 -> 1
             [] th % TwoPi = 2 -> 0
             [] th % TwoPi = 3 -> -1
Cos(th) == CASE th % TwoPi = 0 -> 1
             [] th % TwoPi = 1 -> 0
             [] th % TwoPi = 2 -> -1
             [] th % TwoPi = 3 -> 0

\* An algebra element: rotational components then translational components.
Alg(w, v) == w \o v
\* x[..., :3]
Rot(x) == SubSeq(x, 1, 3)
Trans(x) == SubSeq(x, 4, 6)
ZeroAlg == Alg(Zero3, Zero3)

ISqrt(s) == CHOOSE n \in 0..s : n * n <= s /\ (n + 1) * (n + 1) > s
\* tensor.norm(dim=-1)
Norm(w) == ISqrt(Dot(w, w))

\* The axis the branch generator uses for a zero rotation vector.
DefaultAxis == E(1)

----------------------------------------------------------------------------
(* relie.utils.se3_tools: the group primitives *)

\* Exponential map: Rodrigues' formula for the rotation block; the
\* translation is V(w) v, which is the axial part of v when v lies on the
\* rotation axis or the angle is a whole number of turns.
se3_exp(x) ==
    LET w == Rot(x)
        v == Trans(x)
        th == Norm(w)
    IN  IF th = 0
        THEN [R |-> Id3, t |-> v]
        ELSE LET u == [j \in 1..3 |-> w[j] \div th]
                 K == Hat(u)
                 KK == MatMul(K, K)
             IN  [R |-> [i \in 1..3 |-> [j \in 1..3 |->
                            Id3[i][j] + Sin(th) * K[i][j] + (1 - Cos(th)) * KK[i][j]]],
                  t |-> Scale(Dot(u, v), u)]

\* y is a rigid motion: orthogonal rotation block of determinant one.
IsGroupElement(y) == MatMul(y.R, Transpose(y.R)) = Id3 /\ Det(y.R) = 1

\* Principal logarithm: angle from the trace, axis from the skew part, or
\* from the diagonal at a half turn (where the sign of the axis is lost).
se3_log(y) ==
    LET R == y.R
        c2 == Trace(R) - 1
        th == CASE c2 = 2 -> 0
                [] c2 = 0 -> Pi \div 2
                [] c2 = -2 -> Pi
        w == IF th = 0 THEN Zero3
             ELSE IF th = Pi
                  THEN Scale(Pi, [j \in 1..3 |-> (R[j][j] + 1) \div 2])
                  ELSE Scale(th, << (R[3][2] - R[2][3]) \div 2,
                                    (R[1][3] - R[3][1]) \div 2,
                                    (R[2][1] - R[1][2]) \div 2 >>)
    IN  Alg(w, y.t)

\* What the logarithm does with its argument: the principal value of a
\* group element; on anything else it is unspecified, and either raises or
\* returns some number.
se3_log_outcomes(y) ==
    IF IsGroupElement(y)
    THEN {[ok |-> TRUE, x |-> se3_log(y)]}
    ELSE {[ok |-> FALSE, x |-> ZeroAlg],
          [ok |-> TRUE, x |-> ZeroAlg],
          [ok |-> TRUE, x |-> Alg(Scale(Pi, DefaultAxis), y.t)]}

\* Branch generator: for k in [-k, k] the algebra element of angle
\* th + 2 pi k along the axis of x, translation unchanged.
se3_xset(x, k) ==
    LET w == Rot(x)
        th == Norm(w)
        u == IF th = 0 THEN DefaultAxis ELSE [j \in 1..3 |-> w[j] \div th]
    IN  [i \in 1..(2 * k + 1) |-> Alg(Scale(th + TwoPi * (i - k - 1), u), Trans(x))]

\* |det| of the differential of exp at x is (2 - 2 cos th) / th^2; the value
\* returned is its logarithm, kept here as the pair it is the logarithm of.
se3_log_abs_det_jacobian(x) ==
    LET th == Norm(Rot(x))
    IN  [dtype |-> "float64", num |-> 2 - 2 * Cos(th), den |-> th * th]

\* tensor.float()
Float(t) == [t EXCEPT !.dtype = "float32"]

\* tensor.masked_fill_(m[..., None], value)
masked_fill_(xset, m, value) ==
    [i \in DOMAIN xset |-> IF m[i] THEN [j \in 1..6 |-> value] ELSE xset[i]]

----------------------------------------------------------------------------
(* The three transforms.  self's attribute is passed as the first argument. *)

\* SE3ExpTransform._call
SE3ExpTransform_call(x) == se3_exp(x)

\* Mutants of SE3ExpTransform._xset: the mask taken from the norms, as the
\* bounded variant does; and the first candidate returned as representative.
SE3ExpTransform_xset_normmask(self_k_max, x) ==
    LET xset == se3_xset(x, self_k_max)
        mask == [i \in DOMAIN xset |-> Norm(Rot(xset[i])) < TwoPi]
    IN  [kind |-> "inverse_set", x |-> x, xset |-> xset, mask |-> mask]

SE3ExpTransform_xset_firstrep(self_k_max, x) ==
    LET xset == se3_xset(x, self_k_max)
        mask == [i \in DOMAIN xset |-> TRUE]
    IN  [kind |-> "inverse_set", x |-> xset[1], xset |-> xset, mask |-> mask]

\* SE3ExpTransform._xset
SE3ExpTransform_xset(self_k_max, x) ==
    LET xset == se3_xset(x, self_k_max)
        mask == [i \in DOMAIN xset |-> TRUE]
    IN  [kind |-> "inverse_set", x |-> x, xset |-> xset, mask |-> mask]

\* SE3ExpTransform._inverse_set: every outcome the call can have.
SE3ExpTransform_inverse_set(self_k_max, y) ==
    {IF o.ok THEN SE3ExpTransform_xset(self_k_max, o.x) ELSE [kind |-> "error"] :
        o \in se3_log_outcomes(y)}

\* SE3ExpTransform.log_abs_det_jacobian: y is not read.
SE3ExpTransform_log_abs_det_jacobian(x, y) ==
    [kind |-> "jacobian", value |-> Float(se3_log_abs_det_jacobian(x))]

\* SE3ExpCompactTransform._call
SE3ExpCompactTransform_call(x) == se3_exp(x)

\* Mutants of SE3ExpCompactTransform._xset: no zero-fill; <= for <; the
\* fill applied to the valid slots; a window of no winding; the representative
\* read back from the filled array.
SE3ExpCompactTransform_xset_nofill(self_support_radius, x) ==
    LET xset == se3_xset(x, 1)
        mask == [i \in DOMAIN xset |-> Norm(Rot(xset[i])) < self_support_radius]
    IN  [kind |-> "inverse_set", x |-> x, xset |-> xset, mask |-> mask]

SE3ExpCompactTransform_xset_le(self_support_radius, x) ==
    LET xset == se3_xset(x, 1)
        mask == [i \in DOMAIN xset |-> Norm(Rot(xset[i])) <= self_support_radius]
        filled == masked_fill_(xset, [i \in DOMAIN xset |-> ~mask[i]], 0)
    IN  [kind |-> "inverse_set", x |-> x, xset |-> filled, mask |-> mask]

SE3ExpCompactTransform_xset_fillvalid(self_support_radius, x) ==
    LET xset == se3_xset(x, 1)
        mask == [i \in DOMAIN xset |-> Norm(Rot(xset[i])) < self_support_radius]
        filled == masked_fill_(xset, mask, 0)
    IN  [kind |-> "inverse_set", x |-> x, xset |-> filled, mask |-> mask]

SE3ExpCompactTransform_xset_window0(self_support_radius, x) ==
    LET xset == se3_xset(x, 0)
        mask == [i \in DOMAIN xset |-> Norm(Rot(xset[i])) < self_support_radius]
        filled == masked_fill_(xset, [i \in DOMAIN xset |-> ~mask[i]], 0)
    IN  [kind |-> "inverse_set", x |-> x, xset |-> filled, mask |-> mask]

SE3ExpCompactTransform_xset_aliased(self_support_radius, x) ==
    LET xset == se3_xset(x, 1)
        mask == [i \in DOMAIN xset |-> Norm(Rot(xset[i])) < self_support_radius]
        filled == masked_fill_(xset, [i \in DOMAIN xset |-> ~mask[i]], 0)
    IN  [kind |-> "inverse_set", x |-> filled[2], xset |-> filled, mask |-> mask]

\* SE3ExpCompactTransform._xset
SE3ExpCompactTransform_xset(self_support_radius, x) ==
    LET xset == se3_xset(x, 1)
        norms == [i \in DOMAIN xset |-> Norm(Rot(xset[i]))]
        mask == [i \in DOMAIN xset |-> norms[i] < self_support_radius]
        filled == masked_fill_(xset, [i \in DOMAIN xset |-> ~mask[i]], 0)
    IN  [kind |-> "inverse_set", x |-> x, xset |-> filled, mask |-> mask]

\* SE3ExpCompactTransform._inverse_set
SE3ExpCompactTransform_inverse_set(self_support_radius, y) ==
    {IF o.ok THEN SE3ExpCompactTransform_xset(self_support_radius, o.x)
             ELSE [kind |-> "error"] :
        o \in se3_log_outcomes(y)}

\* SE3ExpCompactTransform.log_abs_det_jacobian
SE3ExpCompactTransform_log_abs_det_jacobian(x, y) ==
    [kind |-> "jacobian", value |-> Float(se3_log_abs_det_jacobian(x))]

\* SE3ExpBijectiveTransform._call
SE3ExpBijectiveTransform_call(x) == se3_exp(x)

\* SE3ExpBijectiveTransform._inverse
SE3ExpBijectiveTransform_inverse(y) ==
    {IF o.ok THEN [kind |-> "algebra", x |-> o.x] ELSE [kind |-> "error"] :
        o \in se3_log_outcomes(y)}

\* SE3ExpBijectiveTransform.log_abs_det_jacobian
SE3ExpBijectiveTransform_log_abs_det_jacobian(x, y) ==
    [kind |-> "jacobian", value |-> Float(se3_log_abs_det_jacobian(x))]

----------------------------------------------------------------------------
(* What callers pass in *)

\* Twists a e_i + s e_i with |a| <= maxAng; a zero rotation takes the default axis.
Twists(maxAng) ==
    {Alg(Scale(a, E(i)), Scale(s, E(i))) :
        a \in (-maxAng..maxAng) \ {0}, i \in 1..3, s \in -MaxTrans..MaxTrans}
    \cup {Alg(Zero3, Scale(s, DefaultAxis)) : s \in -MaxTrans..MaxTrans}

AlgebraElems == Twists(MaxAng)
GroupElems == {se3_exp(x) : x \in AlgebraElems}

\* The windings the model looks at: one more than any window enumerates.
MaxWinding == (IF MaxK > DefaultKMax THEN MaxK ELSE DefaultKMax) + 1

\* The algebra elements among which preimages are looked for: twists on a
\* screw axis and whole-turn rotations with any axial translation, which is
\* where se3_exp is exact.
PreimageDomain ==
    LET A == -(Pi + TwoPi * MaxWinding)..(Pi + TwoPi * MaxWinding)
        Exact == {q \in A \X (1..3) \X (1..3) \X (-MaxTrans..MaxTrans) :
                    q[2] = q[3] \/ q[4] = 0 \/ q[1] % TwoPi = 0}
    IN  {Alg(Scale(q[1], E(q[2])), Scale(q[4], E(q[3]))) : q \in Exact}

\* All preimages of a group element, and all preimages of its rotation.
PreimagesOf == [y \in GroupElems |-> {x \in PreimageDomain : se3_exp(x) = y}]
RotPreimagesOf ==
    [R \in {y.R : y \in GroupElems} |-> {x \in PreimageDomain : se3_exp(x).R = R}]

\* Matrices that are no rigid motion: a reflection and the zero matrix.
Malformed ==
    {[R |-> << <<1, 0, 0>>, <<0, 1, 0>>, <<0, 0, -1>> >>, t |-> Zero3],
     [R |-> << Zero3, Zero3, Zero3 >>, t |-> Zero3]}

\* Group elements that do not belong to x: a quarter turn further, or malformed.
Mismatched(x) ==
    {se3_exp(Alg(Scale(Norm(Rot(x)) + 1, DefaultAxis), Zero3))} \cup Malformed

Transforms == {"SE3ExpTransform", "SE3ExpCompactTransform", "SE3ExpBijectiveTransform"}

\* The operations of each transform.
Operations ==
    {<<o, "forward">> : o \in Transforms}
    \cup {<<o, "log_abs_det_jacobian">> : o \in Transforms}
    \cup {<<"SE3ExpTransform", "inverse_set">>,
          <<"SE3ExpCompactTransform", "inverse_set">>,
          <<"SE3ExpBijectiveTransform", "inverse">>}

\* The arguments an operation can be given.
Arguments(op) ==
    CASE op = "forward" -> {[x |-> x] : x \in AlgebraElems}
      [] op \in {"inverse_set", "inverse"} -> {[y |-> y] : y \in GroupElems \cup Malformed}
      [] op = "log_abs_det_jacobian" ->
            UNION {{[x |-> x, y |-> y] : y \in {se3_exp(x)} \cup Mismatched(x)} :
                    x \in AlgebraElems}

KMaxValues == (0..MaxK) \cup {DefaultKMax}
RadiusValues == 0..MaxRadius

----------------------------------------------------------------------------
(* The state machine: construction, then calls one at a time *)

\* SE3ExpTransform.__init__ and SE3ExpCompactTransform.__init__
Init ==
    /\ k_max \in KMaxValues
    /\ support_radius \in RadiusValues
    /\ pc = "idle"
    /\ call = [obj |-> "none", op |-> "none"]
    /\ result = [kind |-> "none"]

\* A caller picks a transform and one of its operations.
Select ==
    /\ pc = "idle"
    /\ \E m \in Operations : call' = [obj |-> m[1], op |-> m[2]]
    /\ pc' = "selected"
    /\ result' = [kind |-> "none"]
    /\ UNCHANGED <<k_max, support_radius>>

\* The caller passes the arguments.
Pass ==
    /\ pc = "selected"
    /\ \E a \in Arguments(call.op) :
          call' = [obj |-> call.obj, op |-> call.op, args |-> a]
    /\ pc' = "ready"
    /\ UNCHANGED <<k_max, support_radius, result>>

Running(obj, op) == pc = "ready" /\ call.obj = obj /\ call.op = op

Return(r) ==
    /\ result' = r
    /\ pc' = "idle"
    /\ UNCHANGED <<k_max, support_radius, call>>

Full_forward ==
    /\ Running("SE3ExpTransform", "forward")
    /\ Return([kind |-> "group", y |-> SE3ExpTransform_call(call.args.x)])

\* Mutant of inverse_set: the window found is written back to the transform.
Full_inverse_set_storing ==
    /\ Running("SE3ExpTransform", "inverse_set")
    /\ \E r \in SE3ExpTransform_inverse_set(k_max, call.args.y) :
          /\ result' = r
          /\ pc' = "idle"
          /\ k_max' = IF r.kind = "inverse_set" THEN Len(r.xset) ELSE k_max
          /\ UNCHANGED <<support_radius, call>>

Full_inverse_set ==
    /\ Running("SE3ExpTransform", "inverse_set")
    /\ \E r \in SE3ExpTransform_inverse_set(k_max, call.args.y) : Return(r)

Full_log_abs_det_jacobian ==
    /\ Running("SE3ExpTransform", "log_abs_det_jacobian")
    /\ Return(SE3ExpTransform_log_abs_det_jacobian(call.args.x, call.args.y))

Compact_forward ==
    /\ Running("SE3ExpCompactTransform", "forward")
    /\ Return([kind |-> "group", y |-> SE3ExpCompactTransform_call(call.args.x)])

Compact_inverse_set ==
    /\ Running("SE3ExpCompactTransform", "inverse_set")
    /\ \E r \in SE3ExpCompactTransform_inverse_set(support_radius, call.args.y) : Return(r)

Compact_log_abs_det_jacobian ==
    /\ Running("SE3ExpCompactTransform", "log_abs_det_jacobian")
    /\ Return(SE3ExpCompactTransform_log_abs_det_jacobian(call.args.x, call.args.y))

Bijective_forward ==
    /\ Running("SE3ExpBijectiveTransform", "forward")
    /\ Return([kind |-> "group", y |-> SE3ExpBijectiveTransform_call(call.args.x)])

Bijective_inverse ==
    /\ Running("SE3ExpBijectiveTransform", "inverse")
    /\ \E r \in SE3ExpBijectiveTransform_inverse(call.args.y) : Return(r)

Bijective_log_abs_det_jacobian ==
    /\ Running("SE3ExpBijectiveTransform", "log_abs_det_jacobian")
    /\ Return(SE3ExpBijectiveTransform_log_abs_det_jacobian(call.args.x, call.args.y))

Next ==
    \/ Select
    \/ Pass
    \/ Full_forward
    \/ Full_inverse_set
    \/ Full_log_abs_det_jacobian
    \/ Compact_forward
    \/ Compact_inverse_set
    \/ Compact_log_abs_det_jacobian
    \/ Bijective_forward
    \/ Bijective_inverse
    \/ Bijective_log_abs_det_jacobian

Spec == Init /\ [][Next]_vars

----------------------------------------------------------------------------
(* Vocabulary of the properties *)

\* The call that has just returned.
Returned(obj, op) == pc = "idle" /\ call.obj = obj /\ call.op = op

\* inverse_set of a multi-valued variant has returned an inverse set.
GotInverseSet(obj) == Returned(obj, "inverse_set") /\ result.kind = "inverse_set"

\* The argument of the returned inverse_set / inverse call is a group element.
OnGroupElement == IsGroupElement(call.args.y)

Slots == DOMAIN result.xset
ZeroCandidate == <<0, 0, 0, 0, 0, 0>>

\* The unit axis of a rotation vector (the default axis for the zero vector).
AxisOf(x) ==
    LET th == Norm(Rot(x))
    IN  IF th = 0 THEN DefaultAxis ELSE [j \in 1..3 |-> Rot(x)[j] \div th]

\* c is the branch of winding index k of the principal value p.
IsBranch(c, p, k) ==
    /\ Rot(c) = Scale(Norm(Rot(p)) + TwoPi * k, AxisOf(p))
    /\ Trans(c) = Trans(p)

\* What the branch generator produced for the returned representative,
\* before any fill.
Generated(i) == se3_xset(result.x, (Cardinality(Slots) - 1) \div 2)[i]

\* C1: inverse_set of SE3ExpTransform on a group element returns the principal
\* logarithm, 2*k_max+1 candidates, the i-th of winding index i-k_max-1, and
\* a mask that is true everywhere, whatever the candidates' norms.
C1_FullInverseSet ==
    (GotInverseSet("SE3ExpTransform") /\ OnGroupElement) =>
        /\ result.x = se3_log(call.args.y)
        /\ Len(result.xset) = 2 * k_max + 1
        /\ Len(result.mask) = 2 * k_max + 1
        /\ \A i \in Slots : IsBranch(result.xset[i], result.x, i - k_max - 1)
        /\ \A i \in Slots : result.mask[i]

\* The default window, with candidates beyond a whole turn all masked true.
C1_Witness ==
    /\ GotInverseSet("SE3ExpTransform") /\ OnGroupElement
    /\ k_max = DefaultKMax
    /\ Len(result.xset) = 11
    /\ Norm(Rot(result.x)) = 1
    /\ Norm(Rot(result.xset[1])) > TwoPi
    /\ result.mask[1]

\* C3 as stated: in the returned triple of the bounded variant, mask[i] is
\* true iff the rotational norm of the returned candidate i is below
\* support_radius.
C3_MaskOfReturned ==
    GotInverseSet("SE3ExpCompactTransform") =>
        \A i \in Slots :
            result.mask[i] <=> (Norm(Rot(result.xset[i])) < support_radius)

\* C3 amended: mask[i] is true iff the rotational norm of candidate i as the
\* branch generator produced it, before the zero-fill, is below
\* support_radius.
C3_MaskOfGenerated ==
    GotInverseSet("SE3ExpCompactTransform") =>
        \A i \in Slots :
            result.mask[i] <=> (Norm(Rot(Generated(i))) < support_radius)

\* A slot generated exactly at the radius is masked out, one inside it is kept.
C3_Witness ==
    /\ GotInverseSet("SE3ExpCompactTransform") /\ OnGroupElement
    /\ \E i \in Slots : Norm(Rot(Generated(i))) = support_radius /\ ~result.mask[i]
    /\ \E i \in Slots : Norm(Rot(Generated(i))) > 0 /\ result.mask[i]

\* C4: in the bounded variant a masked-false candidate is zero in all six
\* components and a masked-true candidate is what the generator produced.
C4_ZeroFill ==
    GotInverseSet("SE3ExpCompactTransform") =>
        \A i \in Slots :
            /\ ~result.mask[i] => result.xset[i] = ZeroCandidate
            /\ result.mask[i] => result.xset[i] = Generated(i)

\* A masked-false slot whose generated value had a translation, beside a
\* masked-true slot that kept its value.
C4_Witness ==
    /\ GotInverseSet("SE3ExpCompactTransform") /\ OnGroupElement
    /\ \E i \in Slots :
          /\ ~result.mask[i]
          /\ Trans(Generated(i)) # Zero3
          /\ result.xset[i] = ZeroCandidate
    /\ \E i \in Slots : result.mask[i] /\ result.xset[i] # ZeroCandidate

\* forward of each transform.
Forward(obj, x) ==
    CASE obj = "SE3ExpTransform" -> SE3ExpTransform_call(x)
      [] obj = "SE3ExpCompactTransform" -> SE3ExpCompactTransform_call(x)
      [] obj = "SE3ExpBijectiveTransform" -> SE3ExpBijectiveTransform_call(x)

\* The winding index of the preimage x, counted from the principal value p,
\* lies in [-K, K]: x is p turned k whole times about its axis; about any
\* axis when p has no rotation.
InWindow(x, p, K) ==
    IF Norm(Rot(p)) = 0
    THEN Norm(Rot(x)) <= TwoPi * K
    ELSE \E k \in -K..K : Rot(x) = Scale(Norm(Rot(p)) + TwoPi * k, AxisOf(p))

\* The half-width of the returned window.
Window == (Cardinality(Slots) - 1) \div 2

MaskedTrue == {result.xset[i] : i \in {j \in Slots : result.mask[j]}}

\* C5 as stated: the bounded variant returns three slots, the valid ones of
\* winding -1, 0, 1; no preimage of y outside that window has rotational norm
\* below support_radius; every preimage of y with rotational norm below
\* support_radius is a masked-true candidate.  For every support_radius.
C5_WindowSufficient ==
    (GotInverseSet("SE3ExpCompactTransform") /\ OnGroupElement) =>
        /\ Len(result.xset) = 3
        /\ \A i \in Slots : result.mask[i] => IsBranch(result.xset[i], result.x, i - 2)
        /\ \A x \in PreimagesOf[call.args.y] :
              ~InWindow(x, result.x, 1) => ~(Norm(Rot(x)) < support_radius)
        /\ \A x \in PreimagesOf[call.args.y] :
              Norm(Rot(x)) < support_radius => x \in MaskedTrue

\* C5 amended: the same, for a support_radius of at most 2 pi (the default).
C5_WindowSufficientUpTo2Pi ==
    (GotInverseSet("SE3ExpCompactTransform") /\ OnGroupElement
        /\ support_radius <= TwoPi) =>
        /\ Len(result.xset) = 3
        /\ \A i \in Slots : result.mask[i] => IsBranch(result.xset[i], result.x, i - 2)
        /\ \A x \in PreimagesOf[call.args.y] :
              ~InWindow(x, result.x, 1) => ~(Norm(Rot(x)) < support_radius)
        /\ \A x \in PreimagesOf[call.args.y] :
              Norm(Rot(x)) < support_radius => x \in MaskedTrue

\* The default radius: the preimages at a quarter and at three quarters of a
\* turn are both kept, and y has a preimage of winding -2, which lies outside
\* the support.
C5_Witness ==
    /\ GotInverseSet("SE3ExpCompactTransform") /\ OnGroupElement
    /\ support_radius = TwoPi
    /\ Norm(Rot(result.x)) = 1
    /\ result.mask = <<TRUE, TRUE, FALSE>>
    /\ \E x \in PreimagesOf[call.args.y] :
          ~InWindow(x, result.x, 1) /\ Norm(Rot(x)) = 2 * TwoPi - 1

\* C6: when y is forward(x) for an x of rotational norm below pi, the
\* representative returned by inverse_set (by inverse, for the bijective
\* variant) is x.
C6_RoundTrip ==
    (\/ GotInverseSet("SE3ExpTransform")
     \/ GotInverseSet("SE3ExpCompactTransform")
     \/ (Returned("SE3ExpBijectiveTransform", "inverse") /\ result.kind = "algebra")) =>
        \A x \in AlgebraElems :
            (Norm(Rot(x)) < Pi /\ Forward(call.obj, x) = call.args.y) => result.x = x

\* The bounded variant gives back a twist just under pi although its radius
\* masks the k = 0 slot out.
C6_Witness ==
    /\ GotInverseSet("SE3ExpCompactTransform")
    /\ support_radius = 1
    /\ \E x \in AlgebraElems :
          /\ Norm(Rot(x)) = Pi - 1
          /\ Trans(x) # Zero3
          /\ Forward(call.obj, x) = call.args.y
          /\ result.x = x
    /\ result.xset[2] = ZeroCandidate

\* C7 as stated: in each multi-valued variant the middle slot of candidate_xs
\* equals representative_x, for every group element and configuration.
C7_MiddleIsRepresentative ==
    ((GotInverseSet("SE3ExpTransform") \/ GotInverseSet("SE3ExpCompactTransform"))
        /\ OnGroupElement) =>
        result.xset[Window + 1] = result.x

\* C7 amended: the middle slot equals representative_x in SE3ExpTransform, and
\* in SE3ExpCompactTransform when the representative's rotational norm is
\* below support_radius; otherwise the bounded variant's middle slot is zero.
C7_MiddleIsRepresentativeInSupport ==
    /\ (GotInverseSet("SE3ExpTransform") /\ OnGroupElement) =>
          result.xset[k_max + 1] = result.x
    /\ (GotInverseSet("SE3ExpCompactTransform") /\ OnGroupElement) =>
          IF Norm(Rot(result.x)) < support_radius
          THEN result.xset[2] = result.x
          ELSE result.xset[2] = ZeroCandidate

\* A half-turn representative under a radius of pi: the middle slot is zeroed.
C7_Witness ==
    /\ GotInverseSet("SE3ExpCompactTransform") /\ OnGroupElement
    /\ support_radius = Pi
    /\ Norm(Rot(result.x)) = Pi
    /\ result.xset[2] = ZeroCandidate
    /\ result.x # ZeroCandidate

Identity == [R |-> Id3, t |-> Zero3]

\* C8 as stated: forward of the zero vector is the identity; inverse_set of
\* the identity under support_radius = pi returns the zero representative,
\* three candidates, the middle one zero and the outer ones of rotational
\* norm 2 pi, and the mask (false, true, false).
C8_IdentityScenario ==
    /\ \A o \in Transforms :
          (Returned(o, "forward") /\ call.args.x = ZeroAlg) => result.y = Identity
    /\ (GotInverseSet("SE3ExpCompactTransform") /\ call.args.y = Identity
            /\ support_radius = Pi) =>
          /\ result.x = ZeroAlg
          /\ Len(result.xset) = 3
          /\ result.xset[2] = ZeroAlg
          /\ Norm(Rot(result.xset[1])) = TwoPi
          /\ Norm(Rot(result.xset[3])) = TwoPi
          /\ result.mask = <<FALSE, TRUE, FALSE>>

\* C8 amended: the outer candidates are generated at rotational norm 2 pi and,
\* being masked out, are returned as zero.
C8_IdentityScenarioZeroFilled ==
    /\ \A o \in Transforms :
          (Returned(o, "forward") /\ call.args.x = ZeroAlg) => result.y = Identity
    /\ (GotInverseSet("SE3ExpCompactTransform") /\ call.args.y = Identity
            /\ support_radius = Pi) =>
          /\ result.x = ZeroAlg
          /\ Len(result.xset) = 3
          /\ result.xset[2] = ZeroAlg
          /\ Norm(Rot(Generated(1))) = TwoPi
          /\ Norm(Rot(Generated(3))) = TwoPi
          /\ result.xset[1] = ZeroCandidate
          /\ result.xset[3] = ZeroCandidate
          /\ result.mask = <<FALSE, TRUE, FALSE>>

C8_Witness ==
    /\ GotInverseSet("SE3ExpCompactTransform")
    /\ call.args.y = Identity
    /\ support_radius = Pi
    /\ result.mask = <<FALSE, TRUE, FALSE>>
    /\ Generated(1) = Alg(Scale(-TwoPi, DefaultAxis), Zero3)

\* The branches of the representative with winding index in the returned window.
BranchesInWindow ==
    {Alg(Scale(Norm(Rot(result.x)) + TwoPi * k, AxisOf(result.x)), Trans(result.x)) :
        k \in -Window..Window}

\* x lies in the support the transform declares.
InSupport(x) ==
    call.obj = "SE3ExpCompactTransform" => Norm(Rot(x)) < support_radius

C9_FailLoudly ==
    (/\ pc = "idle"
     /\ call.op \in {"inverse_set", "inverse", "log_abs_det_jacobian"}
     /\ ~IsGroupElement(call.args.y)) =>
        result.kind = "error"

\* Every result the returned call can have, given its arguments and the
\* configuration.
Outcomes ==
    CASE call.op = "forward" ->
            {[kind |-> "group", y |-> Forward(call.obj, call.args.x)]}
      [] call.op = "log_abs_det_jacobian" ->
            {[kind |-> "jacobian", value |-> Float(se3_log_abs_det_jacobian(call.args.x))]}
      [] call.op = "inverse" -> SE3ExpBijectiveTransform_inverse(call.args.y)
      [] call.op = "inverse_set" /\ call.obj = "SE3ExpTransform" ->
            SE3ExpTransform_inverse_set(k_max, call.args.y)
      [] call.op = "inverse_set" /\ call.obj = "SE3ExpCompactTransform" ->
            SE3ExpCompactTransform_inverse_set(support_radius, call.args.y)

\* The call's arguments are what the operation expects.
WellFormedCall ==
    call.op \in {"inverse_set", "inverse", "log_abs_det_jacobian"} =>
        IsGroupElement(call.args.y)

\* No step of an operation changes k_max, support_radius or the arguments.
CallFrame ==
    (pc = "ready") =>
        (k_max' = k_max /\ support_radius' = support_radius /\ call' = call)

\* A returned result is the one its arguments and the configuration
\* determine, and the representative is the principal logarithm of y even
\* where the zero-fill has cleared the k = 0 slot.
ResultDetermined ==
    (pc = "idle" /\ call.op # "none") =>
        /\ result \in Outcomes
        /\ WellFormedCall => Cardinality(Outcomes) = 1
        /\ (WellFormedCall /\ result.kind \in {"inverse_set", "algebra"}) =>
              result.x = se3_log(call.args.y)

====
